---- MODULE Spec2Model ----
(***************************************************************************)
(* Model of the wordlist generation engine of src/generator.py.            *)
(*                                                                         *)
(* A Python str is a sequence of one-character strings; None is the         *)
(* one-element sequence NoneValue, which is no str.  A dict is a function   *)
(* whose DOMAIN is the set of keys that are present.  One behaviour is a    *)
(* run of calls of generate_wordlist on the same seeds and length, every    *)
(* call cut into the stages the source marks with its banner comments.      *)
(***************************************************************************)
EXTENDS Integers, Sequences, FiniteSets, TLC

VARIABLES seeds, options, stemmer, pc, max_len, clean_words, clean_numbers,
          word_variations, patterned, final, result, prev

vars == <<seeds, options, stemmer, pc, max_len, clean_words, clean_numbers,
          word_variations, patterned, final, result, prev>>

(***************************************************************************)
(* Bounds of the model.                                                    *)
(***************************************************************************)
\* longest seed sequence passed to a call
MaxSeeds == 2
\* largest value of options["length"] a caller passes (the smallest is -1)
MaxLengthOption == 5
\* longest word of the calls that try apply_leet on every word
MaxWordLength == 3

(***************************************************************************)
(* Characters.  Ascii lists the printable ASCII characters in code point    *)
(* order, so Ord is Python's ord on them.  The grave accent (code 96) is    *)
(* spelled GRAVE, since the lexer takes no grave accent in a string.        *)
(***************************************************************************)
Ascii ==
  << " ", "!", "\"", "#", "$", "%", "&", "'", "(", ")", "*", "+", ",", "-", ".", "/",
     "0", "1", "2", "3", "4", "5", "6", "7", "8", "9", ":", ";", "<", "=", ">", "?",
     "@", "A", "B", "C", "D", "E", "F", "G", "H", "I", "J", "K", "L", "M", "N", "O",
     "P", "Q", "R", "S", "T", "U", "V", "W", "X", "Y", "Z", "[", "\\", "]", "^", "_",
     "GRAVE", "a", "b", "c", "d", "e", "f", "g", "h", "i", "j", "k", "l", "m", "n", "o",
     "p", "q", "r", "s", "t", "u", "v", "w", "x", "y", "z", "{", "|", "}", "~" >>

Chars == { Ascii[i] : i \in 1..Len(Ascii) }

Ord == [ c \in Chars |-> 31 + (CHOOSE i \in 1..Len(Ascii) : Ascii[i] = c) ]

Chr(n) == Ascii[n - 31]

Whitespace == { " ", "\t", "\n", "\r" }

IsDigitCh(c) == c \in Chars /\ Ord[c] >= Ord["0"] /\ Ord[c] <= Ord["9"]
IsUpperCh(c) == c \in Chars /\ Ord[c] >= Ord["A"] /\ Ord[c] <= Ord["Z"]
IsLowerCh(c) == c \in Chars /\ Ord[c] >= Ord["a"] /\ Ord[c] <= Ord["z"]
IsAlphaCh(c) == IsUpperCh(c) \/ IsLowerCh(c)

LowerCh(c) == IF IsUpperCh(c) THEN Chr(Ord[c] + (Ord["a"] - Ord["A"])) ELSE c
UpperCh(c) == IF IsLowerCh(c) THEN Chr(Ord[c] - (Ord["a"] - Ord["A"])) ELSE c

(***************************************************************************)
(* The str methods the generator calls.                                    *)
(***************************************************************************)
Lower(s) == [ i \in 1..Len(s) |-> LowerCh(s[i]) ]
Upper(s) == [ i \in 1..Len(s) |-> UpperCh(s[i]) ]
Capitalize(s) == [ i \in 1..Len(s) |-> IF i = 1 THEN UpperCh(s[i]) ELSE LowerCh(s[i]) ]

IsDigit(s) == Len(s) > 0 /\ \A i \in 1..Len(s) : IsDigitCh(s[i])
IsAlpha(s) == Len(s) > 0 /\ \A i \in 1..Len(s) : IsAlphaCh(s[i])
IsSpace(s) == Len(s) > 0 /\ \A i \in 1..Len(s) : s[i] \in Whitespace

\* str.strip(): drop the leading and the trailing whitespace
Strip(s) ==
  LET keep == { i \in 1..Len(s) : s[i] \notin Whitespace }
  IN  IF keep = {} THEN << >>
      ELSE LET lo == CHOOSE i \in keep : \A j \in keep : i <= j
               hi == CHOOSE i \in keep : \A j \in keep : j <= i
           IN  SubSeq(s, lo, hi)

\* re.sub(r"[^a-zA-Z0-9]", "", s)
StripNonAlnum(s) == SelectSeq(s, LAMBDA c : IsAlphaCh(c) \/ IsDigitCh(c))

(***************************************************************************)
(* Leetspeak substitution.                                                 *)
(***************************************************************************)
\* as LEET_MAP, the last option of "s" lost
LEET_MAP_ShortS ==
  [ ch \in { "a", "e", "i", "o", "s", "t" } |->
      CASE ch = "a" -> << "a", "@", "4" >>
        [] ch = "e" -> << "e", "3" >>
        [] ch = "i" -> << "i", "1", "!" >>
        [] ch = "o" -> << "o", "0" >>
        [] ch = "s" -> << "s", "$" >>
        [] ch = "t" -> << "t", "7" >> ]

LEET_MAP ==
  [ ch \in { "a", "e", "i", "o", "s", "t" } |->
      CASE ch = "a" -> << "a", "@", "4" >>
        [] ch = "e" -> << "e", "3" >>
        [] ch = "i" -> << "i", "1", "!" >>
        [] ch = "o" -> << "o", "0" >>
        [] ch = "s" -> << "s", "$", "5" >>
        [] ch = "t" -> << "t", "7" >> ]

\* LEET_MAP.get(ch, [ch])
LeetOptions(ch) == IF ch \in DOMAIN LEET_MAP THEN LEET_MAP[ch] ELSE << ch >>

Range(f) == { f[i] : i \in DOMAIN f }

\* the list `variations` after the first k characters of word.lower(), as a set
RECURSIVE LeetVariations(_, _)
LeetVariations(lowered, k) ==
  IF k = 0 THEN { << >> }
  ELSE { prefix \o << op >> : prefix \in LeetVariations(lowered, k - 1),
                              op \in Range(LeetOptions(lowered[k])) }

\* as apply_leet, the word not lowercased
apply_leet_NoLower(word) ==
  IF word = << >> THEN {}
  ELSE LeetVariations(word, Len(word))

\* apply_leet(word), the returned list(set(variations)) as a set
apply_leet(word) ==
  IF word = << >> THEN {}
  ELSE LeetVariations(Lower(word), Len(word))

(***************************************************************************)
(* Pattern composition.                                                    *)
(***************************************************************************)
symbols == { "!", "@", "#", "$", "_", "." }

\* as PatternsOf, the symbol-prefixed year pattern lost
PatternsOf_NoPrefixedYear(word, years) ==
  { word }
  \cup UNION { { word \o y, word \o << "_" >> \o y, y \o word } :
               y \in { n \in years : n # << >> } }
  \cup UNION { { word \o << sym >>, << sym >> \o word, word \o << sym, sym >> } :
               sym \in symbols }
  \cup UNION { { word \o << sym >> \o y } : sym \in symbols, y \in years }

\* what apply_patterns adds for one word of its argument
PatternsOf(word, years) ==
  { word }
  \cup UNION { { word \o y, word \o << "_" >> \o y, y \o word } :
               y \in { n \in years : n # << >> } }
  \cup UNION { { word \o << sym >>, << sym >> \o word, word \o << sym, sym >> } :
               sym \in symbols }
  \cup UNION { { word \o << sym >> \o y, << sym >> \o word \o y } :
               sym \in symbols, y \in years }

\* apply_patterns(words, years), the returned list(final) as a set
apply_patterns(words, years) ==
  UNION { PatternsOf(word, years) : word \in { w \in words : w # << >> } }

(***************************************************************************)
(* Stemming.  PorterStemmer is the optional nltk import: stemmer = "none"   *)
(* is the failed import (_HAS_NLTK False).  The library is no part of the   *)
(* repository; it is stood for by its step 1a ("porter": sses -> ss,        *)
(* a final s after a non-s dropped) and by a stemmer that changes nothing.  *)
(***************************************************************************)
Stemmers == { "none", "identity", "porter" }

HAS_NLTK == stemmer # "none"

Stem(kind, lowered) ==
  LET n == Len(lowered)
  IN  IF kind = "porter" /\ n > 2 /\ lowered[n] = "s" /\ lowered[n - 1] # "s"
      THEN SubSeq(lowered, 1, n - 1)
      ELSE lowered

\* as stem_word, the isalpha() test lost
stem_word_AnyWord(word) ==
  LET stem == Stem(stemmer, Lower(word))
  IN  { word } \cup
      ( IF HAS_NLTK /\ stem # << >> /\ stem # Lower(word) THEN { stem } ELSE {} )

\* _stem_word(word), the returned list(variants) as a set
stem_word(word) ==
  LET stem == Stem(stemmer, Lower(word))
  IN  { word } \cup
      ( IF HAS_NLTK /\ IsAlpha(word) /\ stem # << >> /\ stem # Lower(word)
        THEN { stem } ELSE {} )

(***************************************************************************)
(* Seed normalization.                                                     *)
(***************************************************************************)
NoneValue == << "None" >>

\* one pass of the loop of _clean_seeds: the cleaned token, << >> when the
\* seed is skipped
Cleaned(seed) ==
  LET stripped == Strip(IF seed = NoneValue THEN << >> ELSE seed)
  IN  IF stripped = << >> THEN << >> ELSE StripNonAlnum(stripped)

\* as clean_seeds, the empty cleaned tokens kept
clean_seeds_KeepEmpty(seedlist) ==
  LET cleaned == [ i \in 1..Len(seedlist) |-> Cleaned(seedlist[i]) ]
  IN  [ words   |-> SelectSeq(cleaned, LAMBDA c : ~IsDigit(c)),
        numbers |-> SelectSeq(cleaned, LAMBDA c : IsDigit(c)) ]

\* as clean_seeds, a token taken for a number as soon as it holds a digit
clean_seeds_AnyDigit(seedlist) ==
  LET cleaned == [ i \in 1..Len(seedlist) |-> Cleaned(seedlist[i]) ]
      kept    == SelectSeq(cleaned, LAMBDA c : c # << >>)
      HasDigit(c) == \E i \in 1..Len(c) : IsDigitCh(c[i])
  IN  [ words   |-> SelectSeq(kept, LAMBDA c : ~HasDigit(c)),
        numbers |-> SelectSeq(kept, LAMBDA c : HasDigit(c)) ]

\* _clean_seeds(seeds): the two lists, in order of appearance
clean_seeds(seedlist) ==
  LET cleaned == [ i \in 1..Len(seedlist) |-> Cleaned(seedlist[i]) ]
      kept    == SelectSeq(cleaned, LAMBDA c : c # << >>)
  IN  [ words   |-> SelectSeq(kept, LAMBDA c : ~IsDigit(c)),
        numbers |-> SelectSeq(kept, LAMBDA c : IsDigit(c)) ]

(***************************************************************************)
(* Lists, set iteration and sorted().                                      *)
(***************************************************************************)
Reverse(list) == [ i \in 1..Len(list) |-> list[Len(list) + 1 - i] ]

\* a set of characters in code point order
RECURSIVE CharsInOrder(_)
CharsInOrder(H) ==
  IF H = {} THEN << >>
  ELSE LET least == CHOOSE c \in H : \A d \in H : Ord[c] <= Ord[d]
       IN  << least >> \o CharsInOrder(H \ { least })

\* the characters at position k of the strings of S (each of length >= k), in
\* code point order
HeadsAt(S, k) == CharsInOrder({ s[k] : s \in S })

\* S, whose strings agree on their first k-1 characters, listed in ascending
\* order: the string of length k-1 first, then group by group of the k-th
\* character
RECURSIVE AscendingFrom(_, _), AscendingGroups(_, _, _, _)
AscendingFrom(S, k) ==
  LET short == { s \in S : Len(s) < k }
  IN  ( IF short = {} THEN << >> ELSE << CHOOSE s \in short : TRUE >> )
      \o AscendingGroups(S \ short, k, HeadsAt(S \ short, k), 1)

AscendingGroups(S, k, heads, i) ==
  IF i > Len(heads) THEN << >>
  ELSE AscendingFrom({ s \in S : s[k] = heads[i] }, k + 1)
       \o AscendingGroups(S, k, heads, i + 1)

\* The orders in which a set of str may be iterated: the order depends on the
\* hashes and on the history of the set, so it is any one of these.
IterationOrders(S) ==
  LET ascending == AscendingFrom(S, 1)
  IN  { ascending, Reverse(ascending) }

\* LexLess(a, b): a < b as Python compares str, by code points, a proper
\* prefix first
LexLess(a, b) ==
  \E i \in 1..(Len(b)) :
     /\ \A j \in 1..(i - 1) : j <= Len(a) /\ a[j] = b[j]
     /\ \/ i = Len(a) + 1
        \/ i <= Len(a) /\ Ord[a[i]] < Ord[b[i]]

\* sorted(list): a stable sort of the list by LexLess, most significant
\* character first
RECURSIVE SortedFrom(_, _), SortedGroups(_, _, _, _)
SortedFrom(list, k) ==
  LET short == SelectSeq(list, LAMBDA s : Len(s) < k)
      long  == SelectSeq(list, LAMBDA s : Len(s) >= k)
  IN  short \o SortedGroups(long, k, HeadsAt(Range(long), k), 1)

SortedGroups(list, k, heads, i) ==
  IF i > Len(heads) THEN << >>
  ELSE SortedFrom(SelectSeq(list, LAMBDA s : s[k] = heads[i]), k + 1)
       \o SortedGroups(list, k, heads, i + 1)

\* as Sorted, the strings compared by their lengths alone (a stable sort)
Sorted_ByLength(list) ==
  LET RECURSIVE OfLength(_)
      OfLength(k) ==
        IF k > max_len THEN << >>
        ELSE SelectSeq(list, LAMBDA s : Len(s) = k) \o OfLength(k + 1)
  IN  OfLength(0)

\* as Sorted, the list returned as it is iterated
Sorted_AsIterated(list) == list

Sorted(list) == SortedFrom(list, 1)

(***************************************************************************)
(* The stages of generate_wordlist.                                        *)
(***************************************************************************)
DefaultLength == 12

\* options.get(key, default)
Get(dict, key, default) == IF key \in DOMAIN dict THEN dict[key] ELSE default

\* int(options.get("length", 12) or 12): 0 is falsy, like a missing key
MaxLen(opts) ==
  LET given == Get(opts, "length", DefaultLength)
  IN  IF given = 0 THEN DefaultLength ELSE given

\* the three case forms and the leet forms of one base string
VariationsOf(base) ==
  apply_leet(base) \cup { Lower(base), Capitalize(base), Upper(base) }

\* word_variations after the loop over clean_words and the early set()
WordVariations(words) ==
  UNION { VariationsOf(base) : base \in UNION { stem_word(w) : w \in Range(words) } }

\* the simple word+number combos
Combos(variations, numbers) ==
  UNION { { w \o num, num \o w } : w \in variations, num \in Range(numbers) }

\* as RawTokens, the raw numbers lost
RawTokens_WordsOnly(variations, numbers) == variations

\* the raw numbers and the words added last
RawTokens(variations, numbers) == Range(numbers) \cup variations

\* "123", "!", "!", "99", "007"
common_suffixes ==
  << << "1", "2", "3" >>, << "!" >>, << "!" >>, << "9", "9" >>, << "0", "0", "7" >> >>

\* as Suffixed, the loop run over final itself, which sees what it adds
Suffixed_Live(snapshot, limit) ==
  LET once == { candidate \in { w \o suf : w \in snapshot, suf \in Range(common_suffixes) } :
                  Len(candidate) <= limit }
  IN  once \cup { candidate \in { w \o suf : w \in once, suf \in Range(common_suffixes) } :
                    Len(candidate) <= limit }

\* as Suffixed, a candidate that is too long cut to the limit and kept
Suffixed_Truncating(snapshot, limit) ==
  { IF Len(w \o suf) <= limit THEN w \o suf ELSE SubSeq(w \o suf, 1, limit) :
      w \in snapshot, suf \in Range(common_suffixes) }

\* the loop over list(final): the candidates it adds to final
Suffixed(snapshot, limit) ==
  { candidate \in { w \o suf : w \in snapshot, suf \in Range(common_suffixes) } :
      Len(candidate) <= limit }

\* as Filtered, a non-empty rules string taken for a length the candidates must have
Filtered_RulesHook(candidates, limit) ==
  { w \in candidates : /\ 3 <= Len(w) /\ Len(w) <= limit /\ ~IsSpace(w)
                       /\ Get(options, "rules", << >>) # << >> => Len(w) = 3 }

\* the final set comprehension
Filtered(candidates, limit) ==
  { w \in candidates : 3 <= Len(w) /\ Len(w) <= limit /\ ~IsSpace(w) }

(***************************************************************************)
(* The inputs of a call.                                                   *)
(***************************************************************************)
SeedPool ==
  { NoneValue,
    << " " >>,
    << "-" >>,
    << " ", "B", "u", "-", "g", "s" >>,
    << "x", "1", "S" >>,
    << "4", "0", "0" >> }

\* the seeds of the pool that normalization keeps
KeptPool == { seed \in SeedPool : Cleaned(seed) # << >> }

SeedListsOver(pool) == UNION { [ 1..n -> pool ] : n \in 0..MaxSeeds }

LengthValues == (0 - 1)..MaxLengthOption

RulesValues == { << >>, << "x" >> }

EmptyDict == [ key \in {} |-> 0 ]

\* the dicts that are opts but for their "rules" entry, present or not
WithRules(opts) ==
  { [ key \in DOMAIN opts \ { "rules" } |-> opts[key] ] }
  \cup { [ key \in DOMAIN opts \cup { "rules" } |->
             IF key = "rules" THEN r ELSE opts[key] ] : r \in RulesValues }

LengthOptions == { EmptyDict } \cup { [ length |-> l ] : l \in LengthValues }

(***************************************************************************)
(* The state machine.                                                      *)
(***************************************************************************)
Init ==
  /\ seeds \in SeedListsOver(SeedPool)
  /\ options \in LengthOptions
  /\ stemmer \in Stemmers
  /\ pc = "start"
  /\ max_len = 0
  /\ clean_words = << >>
  /\ clean_numbers = << >>
  /\ word_variations = {}
  /\ patterned = {}
  /\ final = {}
  /\ result = << >>
  /\ prev = << >>

\* max_len, _clean_seeds(seeds) and the empty final
Normalize ==
  /\ pc = "start"
  /\ max_len' = MaxLen(options)
  /\ clean_words' = clean_seeds(seeds).words
  /\ clean_numbers' = clean_seeds(seeds).numbers
  /\ final' = {}
  /\ pc' = "words"
  /\ UNCHANGED << seeds, options, stemmer, word_variations, patterned, result, prev >>

\* "Process alphabetic seeds"
ExpandWords ==
  /\ pc = "words"
  /\ word_variations' = WordVariations(clean_words)
  /\ pc' = "patterns"
  /\ UNCHANGED << seeds, options, stemmer, max_len, clean_words, clean_numbers,
                  patterned, final, result, prev >>

\* "Apply higher-level patterns"
ApplyPatterns ==
  /\ pc = "patterns"
  /\ patterned' = apply_patterns(word_variations, Range(clean_numbers))
  /\ pc' = "combos"
  /\ UNCHANGED << seeds, options, stemmer, max_len, clean_words, clean_numbers,
                  word_variations, final, result, prev >>

\* "Simple word+number combos", "Include patterned combos", "Always include
\* raw numbers and words"
Collect ==
  /\ pc = "combos"
  /\ final' = final \cup Combos(word_variations, clean_numbers) \cup patterned
                    \cup RawTokens(word_variations, clean_numbers)
  /\ pc' = "suffixes"
  /\ UNCHANGED << seeds, options, stemmer, max_len, clean_words, clean_numbers,
                  word_variations, patterned, result, prev >>

\* "Optional generic suffixes"
AddSuffixes ==
  /\ pc = "suffixes"
  /\ final' = final \cup Suffixed(final, max_len)
  /\ pc' = "filter"
  /\ UNCHANGED << seeds, options, stemmer, max_len, clean_words, clean_numbers,
                  word_variations, patterned, result, prev >>

\* "Final filtering" and return sorted(filtered)
FilterAndSort ==
  /\ pc = "filter"
  /\ \E list \in IterationOrders(Filtered(final, max_len)) : result' = Sorted(list)
  /\ pc' = "done"
  /\ UNCHANGED << seeds, options, stemmer, max_len, clean_words, clean_numbers,
                  word_variations, patterned, final, prev >>

\* the caller calls again, on the same seeds and length, with other rules or
\* another stemming capability; the locals of the call that returned are gone
CallAgain ==
  /\ pc = "done"
  /\ prev' = << [ options |-> options, stemmer |-> stemmer, result |-> result ] >>
  /\ \/ options' \in WithRules(options) /\ stemmer' = stemmer
     \/ options' = options /\ stemmer' \in Stemmers
  /\ pc' = "start"
  /\ max_len' = 0
  /\ clean_words' = << >>
  /\ clean_numbers' = << >>
  /\ word_variations' = {}
  /\ patterned' = {}
  /\ final' = {}
  /\ result' = << >>
  /\ UNCHANGED seeds

Next ==
  \/ Normalize
  \/ ExpandWords
  \/ ApplyPatterns
  \/ Collect
  \/ AddSuffixes
  \/ FilterAndSort

Spec == Init /\ [][Next]_vars

\* calls in a row: any rules and stemming capability to begin with, the two
\* largest lengths
InitAgain ==
  /\ seeds \in SeedListsOver(KeptPool)
  /\ options \in UNION { WithRules(opts) : opts \in { [ length |-> MaxLengthOption - 1 ], [ length |-> MaxLengthOption ] } }
  /\ stemmer \in Stemmers
  /\ pc = "start"
  /\ max_len = 0
  /\ clean_words = << >>
  /\ clean_numbers = << >>
  /\ word_variations = {}
  /\ patterned = {}
  /\ final = {}
  /\ result = << >>
  /\ prev = << >>

NextAgain == Next \/ CallAgain

SpecAgain == InitAgain /\ [][NextAgain]_vars

\* the dicts with a length at least that of opts: the lengths up to the
\* largest, and the default length
LongerOptions(opts) ==
  { [ length |-> l ] : l \in { n \in LengthValues \cup { DefaultLength } : n >= opts["length"] } }

\* the caller calls again on the same seeds with a length that is no smaller
CallLonger ==
  /\ pc = "done"
  /\ "length" \in DOMAIN options
  /\ prev' = << [ options |-> options, stemmer |-> stemmer, result |-> result ] >>
  /\ options' \in LongerOptions(options)
  /\ pc' = "start"
  /\ max_len' = 0
  /\ clean_words' = << >>
  /\ clean_numbers' = << >>
  /\ word_variations' = {}
  /\ patterned' = {}
  /\ final' = {}
  /\ result' = << >>
  /\ UNCHANGED << seeds, stemmer >>

\* calls in a row with growing lengths, from 3 on
InitCutoff ==
  /\ seeds \in SeedListsOver(KeptPool)
  /\ options \in { [ length |-> l ] : l \in 3..MaxLengthOption }
  /\ stemmer \in Stemmers
  /\ pc = "start"
  /\ max_len = 0
  /\ clean_words = << >>
  /\ clean_numbers = << >>
  /\ word_variations = {}
  /\ patterned = {}
  /\ final = {}
  /\ result = << >>
  /\ prev = << >>

NextCutoff == Next \/ CallLonger

SpecCutoff == InitCutoff /\ [][NextCutoff]_vars

\* calls on one word each, every word over a few mapped and unmapped letters
LeetAlphabet == { "a", "e", "s", "t", "k", "I" }

LeetWords == UNION { [ 1..n -> LeetAlphabet ] : n \in 1..MaxWordLength }

InitLeet ==
  /\ seeds \in { << word >> : word \in LeetWords }
  /\ options = [ length |-> 3 ]
  /\ stemmer = "none"
  /\ pc = "start"
  /\ max_len = 0
  /\ clean_words = << >>
  /\ clean_numbers = << >>
  /\ word_variations = {}
  /\ patterned = {}
  /\ final = {}
  /\ result = << >>
  /\ prev = << >>

SpecLeet == InitLeet /\ [][Next]_vars

(***************************************************************************)
(* Definitions shared by the properties.                                   *)
(***************************************************************************)
Output == Range(result)

InRange(s) == 3 <= Len(s) /\ Len(s) <= max_len

\* a seed with the characters that are no ASCII letter or digit removed
TokenOf(seed) ==
  IF seed = NoneValue THEN << >>
  ELSE SelectSeq(seed, LAMBDA c : c \in Chars /\
         ( (Ord[c] >= 48 /\ Ord[c] <= 57) \/ (Ord[c] >= 65 /\ Ord[c] <= 90)
           \/ (Ord[c] >= 97 /\ Ord[c] <= 122) ))

AllDigits(s) == s # << >> /\ \A i \in 1..Len(s) : s[i] \in { "0", "1", "2", "3", "4", "5", "6", "7", "8", "9" }

Bugs == << "b", "u", "g", "s" >>
N400 == << "4", "0", "0" >>
SeedBugs == << " ", "B", "u", "-", "g", "s" >>
SeedX1s == << "x", "1", "S" >>

(***************************************************************************)
(* C1.  Every string of the returned list has a length from 3 to            *)
(* options["length"], for every integer value of options["length"].         *)
(* The code does not keep this: a length of 0 is taken for a missing one    *)
(* and replaced by 12.                                                     *)
(***************************************************************************)
C1_LengthInvariant ==
  (pc = "done" /\ "length" \in DOMAIN options) =>
     \A i \in 1..Len(result) :
        3 <= Len(result[i]) /\ Len(result[i]) <= options["length"]

(***************************************************************************)
(* C2.  The returned list holds no element twice and each element is        *)
(* strictly less than its successor in lexicographic (code point) order.    *)
(***************************************************************************)
C2_StrictlyAscending ==
  pc = "done" =>
     /\ Cardinality(Output) = Len(result)
     /\ \A i \in 1..(Len(result) - 1) : LexLess(result[i], result[i + 1])

C2_Witness ==
  /\ pc = "done"
  /\ Len(result) >= 3
  /\ Len(seeds) = 2

(***************************************************************************)
(* C3.  Baseline survival: for every seed whose cleaned token is not empty  *)
(* and has a length from 3 to the maximum length, the lowercase form of     *)
(* the token (the token itself if it is a number) is in the output,         *)
(* whatever the other seeds are.                                           *)
(***************************************************************************)
C3_BaselineSurvival ==
  pc = "done" =>
     { IF AllDigits(t) THEN t ELSE Lower(t) :
         t \in { tok \in { TokenOf(seeds[i]) : i \in 1..Len(seeds) } :
                   tok # << >> /\ InRange(tok) } } \subseteq Output

C3_Witness ==
  /\ pc = "done"
  /\ seeds = << SeedBugs, N400 >>
  /\ options = [ length |-> 4 ]
  /\ { Bugs, N400 } \subseteq Output

(***************************************************************************)
(* C4.  If options["length"] is an integer smaller than 3 (0 and the        *)
(* negative values included) the returned list is empty.  The code does     *)
(* not keep this for 0, which it replaces by 12.                            *)
(***************************************************************************)
C4_ShortLengthEmpty ==
  (pc = "done" /\ "length" \in DOMAIN options /\ options["length"] < 3) =>
     result = << >>

(***************************************************************************)
(* C5.  Two calls with the same seeds and the same options return the same  *)
(* list, whatever the earlier call left and whatever order sets iterate in. *)
(***************************************************************************)
C5_Deterministic ==
  (pc = "done" /\ prev # << >> /\ prev[1].options = options /\ prev[1].stemmer = stemmer) =>
     result = prev[1].result

C5_Witness ==
  /\ pc = "done"
  /\ prev # << >>
  /\ prev[1].options = options
  /\ prev[1].stemmer = stemmer
  /\ Len(seeds) = 2
  /\ Len(result) >= 3
  /\ result = prev[1].result

(***************************************************************************)
(* C6.  If the seed list is empty or every seed is None, empty, whitespace  *)
(* only or without any letter or digit, the returned list is empty, for     *)
(* every options["length"].                                                *)
(***************************************************************************)
C6_NoValidSeedsEmpty ==
  (pc = "done" /\ \A i \in 1..Len(seeds) : TokenOf(seeds[i]) = << >>) =>
     result = << >>

C6_Witness ==
  /\ pc = "done"
  /\ seeds = << NoneValue, << "-" >> >>
  /\ max_len = DefaultLength
  /\ result = << >>

(***************************************************************************)
(* C7.  Pattern composition reaches the output: for every base variant v,   *)
(* number token n and symbol s of ! @ # $ _ . each of v, v+n, v+"_"+n,      *)
(* n+v, v+s, s+v, v+s+s, v+s+n and s+v+n whose length is from 3 to the      *)
(* maximum length is in the output.                                        *)
(***************************************************************************)
ComposedOf(v) ==
  { v }
  \cup UNION { { v \o n, v \o << "_" >> \o n, n \o v } : n \in Range(clean_numbers) }
  \cup UNION { { v \o << s >>, << s >> \o v, v \o << s >> \o << s >> } :
               s \in { "!", "@", "#", "$", "_", "." } }
  \cup UNION { { v \o << s >> \o n, << s >> \o v \o n } :
               s \in { "!", "@", "#", "$", "_", "." }, n \in Range(clean_numbers) }

C7_PatternsReachOutput ==
  pc = "done" =>
     { c \in UNION { ComposedOf(v) : v \in word_variations } : InRange(c) } \subseteq Output

C7_Witness ==
  /\ pc = "done"
  /\ seeds = << SeedBugs, N400 >>
  /\ options = EmptyDict
  /\ { Bugs, N400, Bugs \o N400, N400 \o Bugs, Bugs \o << "_" >> \o N400,
       Bugs \o << "!" >>, << "!" >> \o Bugs, Bugs \o << "@", "@" >>,
       Bugs \o << "#" >> \o N400, << "." >> \o Bugs \o N400 } \subseteq Output

(***************************************************************************)
(* C8.  Variant expansion reaches the output: for every word token w the    *)
(* lowercase, the capitalized and the uppercase form of w, and every        *)
(* string got from lowercase w by choosing at each position one option of   *)
(* the substitution table, is in the output when its length is from 3 to    *)
(* the maximum length.                                                     *)
(***************************************************************************)
SubstitutionsOf(c) ==
  CASE c = "a" -> { "a", "@", "4" }
    [] c = "e" -> { "e", "3" }
    [] c = "i" -> { "i", "1", "!" }
    [] c = "o" -> { "o", "0" }
    [] c = "s" -> { "s", "$", "5" }
    [] c = "t" -> { "t", "7" }
    [] OTHER   -> { c }

SubstitutionForms(lowered) ==
  { form \in [ 1..Len(lowered) -> UNION { SubstitutionsOf(lowered[i]) : i \in 1..Len(lowered) } ] :
      \A i \in 1..Len(lowered) : form[i] \in SubstitutionsOf(lowered[i]) }

C8_VariantsReachOutput ==
  pc = "done" =>
     \A k \in 1..Len(clean_words) :
        LET w == clean_words[k]
        IN  { c \in { Lower(w), Capitalize(w), Upper(w) } \cup SubstitutionForms(Lower(w)) :
                InRange(c) } \subseteq Output

C8_Witness ==
  /\ pc = "done"
  /\ seeds = << SeedBugs >>
  /\ options = EmptyDict
  /\ { Bugs, << "B", "u", "g", "s" >>, << "B", "U", "G", "S" >>,
       << "b", "u", "g", "$" >>, << "b", "u", "g", "5" >> } \subseteq Output

(***************************************************************************)
(* C9.  Stemming only adds: with the same seeds and options, the output     *)
(* without a stemmer equals the output with a stemmer that returns its      *)
(* argument, and is a subset of the output with any stemmer; when no word   *)
(* token is purely alphabetic the stemmer changes nothing.                  *)
(***************************************************************************)
PurelyAlphabetic(w) ==
  w # << >> /\ \A i \in 1..Len(w) : w[i] \in Chars /\
     ( (Ord[w[i]] >= 65 /\ Ord[w[i]] <= 90) \/ (Ord[w[i]] >= 97 /\ Ord[w[i]] <= 122) )

C9_StemmingOnlyAdds ==
  (pc = "done" /\ prev # << >> /\ prev[1].options = options) =>
     /\ ( { prev[1].stemmer, stemmer } \subseteq { "none", "identity" } )
           => result = prev[1].result
     /\ prev[1].stemmer = "none" => Range(prev[1].result) \subseteq Output
     /\ stemmer = "none" => Output \subseteq Range(prev[1].result)
     /\ ( \A i \in 1..Len(seeds) : ~PurelyAlphabetic(TokenOf(seeds[i])) )
           => result = prev[1].result

C9_Witness ==
  /\ pc = "done"
  /\ prev # << >>
  /\ prev[1].options = options
  /\ prev[1].stemmer = "none"
  /\ stemmer = "porter"
  /\ seeds = << SeedX1s, SeedBugs >>
  /\ << "b", "u", "g" >> \in Output
  /\ << "b", "u", "g" >> \notin Range(prev[1].result)
  /\ << "x", "1", "s", "!" >> \in Output
  /\ << "x", "1", "!" >> \notin Output

(***************************************************************************)
(* C10.  The output does not depend on options["rules"]: with the same      *)
(* seeds, length and stemmer, the calls with rules missing, empty or any    *)
(* other string return the same list.                                      *)
(***************************************************************************)
C10_RulesIgnored ==
  ( /\ pc = "done"
    /\ prev # << >>
    /\ prev[1].stemmer = stemmer
    /\ prev[1].options # options
    /\ prev[1].options \in WithRules(options) ) =>
     result = prev[1].result

C10_Witness ==
  /\ pc = "done"
  /\ prev # << >>
  /\ prev[1].stemmer = stemmer
  /\ "rules" \notin DOMAIN prev[1].options
  /\ "rules" \in DOMAIN options
  /\ options["rules"] = << "x" >>
  /\ Len(seeds) = 2
  /\ Len(result) >= 3

(***************************************************************************)
(* C11.  The final filter runs over a set that holds every cleaned word     *)
(* token and every cleaned number token exactly as normalization made it    *)
(* (letter case kept), so each such token of a length from 3 to the         *)
(* maximum length is in the output.  The code does not keep this: it adds   *)
(* word_variations, the case and leet forms, and not clean_words.           *)
(***************************************************************************)
RawTokensOf(seedlist) ==
  { TokenOf(seedlist[i]) : i \in 1..Len(seedlist) } \ { << >> }

C11_RawTokensReinserted ==
  /\ pc \in { "filter", "done" } => RawTokensOf(seeds) \subseteq final
  /\ pc = "done" => { t \in RawTokensOf(seeds) : InRange(t) } \subseteq Output

(***************************************************************************)
(* C12.  Intermediate sets are bounded: after variant expansion, after      *)
(* pattern composition and after suffix augmentation (before the final      *)
(* filter) the working set holds no string longer than the maximum length,  *)
(* or its size is held under a per-stage cap.  The code has no cap to       *)
(* name, which leaves the truncation; it does not keep it: only the suffix  *)
(* stage tests a length, and only that of the strings it adds itself.       *)
(***************************************************************************)
NoneLonger(S) == \A w \in S : Len(w) <= max_len

C12_IntermediateSetsTruncated ==
  /\ pc \in { "patterns", "combos", "suffixes", "filter" } => NoneLonger(word_variations)
  /\ pc \in { "combos", "suffixes", "filter" } => NoneLonger(patterned)
  /\ pc = "filter" => NoneLonger(final)

(***************************************************************************)
(* C13.  Suffix augmentation works on a snapshot and only adds: if F is     *)
(* the candidate set just before the stage, the set just after it is F      *)
(* united with the c+suf, c in F and suf one of "123", "!", "99", "007",    *)
(* that are no longer than the maximum length; nothing of F is removed      *)
(* and no suffix is put on a string the stage added itself.                 *)
(***************************************************************************)
FixedSuffixes ==
  { << "1", "2", "3" >>, << "!" >>, << "9", "9" >>, << "0", "0", "7" >> }

C13_SuffixSnapshotOnlyAdds ==
  [][ pc = "suffixes" =>
        final' = final \cup { x \in { c \o suf : c \in final, suf \in FixedSuffixes } :
                                Len(x) <= max_len } ]_vars

C13_Witness ==
  /\ pc = "filter"
  /\ seeds = << N400 >>
  /\ max_len = DefaultLength
  /\ final = { N400, N400 \o << "1", "2", "3" >>, N400 \o << "!" >>,
               N400 \o << "9", "9" >>, N400 \o << "0", "0", "7" >> }

(***************************************************************************)
(* C14.  Seed classification: the cleaned token of a seed is the seed       *)
(* without the characters that are no ASCII letter or digit; it is dropped  *)
(* if empty, goes to the number list iff all its characters are digits and  *)
(* else goes whole to the word list; both lists keep the order of the       *)
(* seeds and keep duplicates.                                              *)
(***************************************************************************)
C14_SeedClassification ==
  pc # "start" =>
     LET tokens == [ i \in 1..Len(seeds) |-> TokenOf(seeds[i]) ]
     IN  /\ clean_numbers = SelectSeq(tokens, LAMBDA t : AllDigits(t))
         /\ clean_words = SelectSeq(tokens, LAMBDA t : t # << >> /\ ~AllDigits(t))

C14_Witness ==
  /\ pc = "words"
  /\ seeds = << SeedX1s, SeedX1s >>
  /\ clean_words = << << "x", "1", "S" >>, << "x", "1", "S" >> >>
  /\ clean_numbers = << >>

(***************************************************************************)
(* C15.  For every non-empty word the number of distinct strings            *)
(* apply_leet returns is the product, over the characters of the            *)
(* lowercased word, of the length of the character's substitution list (3   *)
(* for a, i and s, 2 for e, o and t, 1 for any other); for the empty word   *)
(* the result is empty.                                                    *)
(***************************************************************************)
ListLength(c) ==
  IF c \in { "a", "i", "s" } THEN 3 ELSE IF c \in { "e", "o", "t" } THEN 2 ELSE 1

RECURSIVE ProductOfLengths(_, _)
ProductOfLengths(lowered, k) ==
  IF k = 0 THEN 1 ELSE ListLength(lowered[k]) * ProductOfLengths(lowered, k - 1)

C15_LeetCount ==
  /\ apply_leet(<< >>) = {}
  /\ pc \notin { "start", "words" } =>
       \A k \in 1..Len(clean_words) :
          /\ Cardinality(apply_leet(clean_words[k]))
               = ProductOfLengths(Lower(clean_words[k]), Len(clean_words[k]))
          /\ apply_leet(clean_words[k]) \subseteq word_variations

C15_Witness ==
  /\ pc = "patterns"
  /\ seeds = << << "s", "a", "I" >> >>
  /\ Cardinality(apply_leet(clean_words[1])) = 27
  /\ << "$", "4", "!" >> \in word_variations

(***************************************************************************)
(* C16.  The length is a pure cut-off: for the same seeds and all lengths   *)
(* 3 <= L <= L', the list returned for L is the list returned for L'        *)
(* without its strings longer than L, in the same order.                    *)
(***************************************************************************)
C16_LengthCutoff ==
  ( /\ pc = "done"
    /\ prev # << >>
    /\ prev[1].stemmer = stemmer
    /\ "length" \in DOMAIN options
    /\ "length" \in DOMAIN prev[1].options
    /\ 3 <= prev[1].options["length"]
    /\ prev[1].options["length"] <= options["length"] ) =>
     prev[1].result = SelectSeq(result, LAMBDA x : Len(x) <= prev[1].options["length"])

C16_Witness ==
  /\ pc = "done"
  /\ prev # << >>
  /\ seeds = << SeedBugs, N400 >>
  /\ prev[1].options = [ length |-> 4 ]
  /\ options = [ length |-> DefaultLength ]
  /\ N400 \o << "!" >> \in Range(prev[1].result)
  /\ N400 \o << "9", "9" >> \notin Range(prev[1].result)
  /\ N400 \o << "9", "9" >> \in Output
  /\ prev[1].result = SelectSeq(result, LAMBDA x : Len(x) <= 4)

====
